---- MODULE Spec2Model ----
(***************************************************************************)
(* Behavior network of cogbox (cogbox/behavior/behavior_network.py), after *)
(* Maes (1989).  The network's state is the list of behaviors with their   *)
(* two activation levels and executable flag, the energy constants and the *)
(* threshold.  Activations are Python floats; they are modelled as exact   *)
(* rationals n/d in lowest terms, i.e. by the real-number value of every   *)
(* float expression of the source.                                         *)
(***************************************************************************)
EXTENDS Integers, Sequences, FiniteSets, TLC

----------------------------------------------------------------------------
(* Bounds of the model.                                                    *)

\* Longest behavior list a network is constructed with.
MaxBehaviors == 2

\* run() is explored from states whose activations and threshold have
\* numerator and denominator of at most this size.
MaxMagnitude == 1000

\* Most store calls made on one sparse distributed memory.
MaxStores == 1

\* Longest word stored in a Hopfield memory.
MaxWordLength == 3

\* Greatest max_threshold given as a multiple of the smallest positive double.
MaxSubnormal == 6

\* Most words stored in a Hopfield memory at once.
MaxPatterns == 5

----------------------------------------------------------------------------
(* Exact rational arithmetic standing for the float operators + - * / < >. *)

Abs(x) == IF x < 0 THEN -x ELSE x

RECURSIVE GCD(_, _)
GCD(a, b) == IF b = 0 THEN a ELSE GCD(b, a % b)

Rat(n, d) ==
    LET g == GCD(Abs(n), d)
    IN  [n |-> n \div g, d |-> d \div g]

FromInt(k) == [n |-> k, d |-> 1]

Zero == FromInt(0)

One == FromInt(1)

Add(a, b) ==
    LET g == GCD(a.d, b.d)
    IN  Rat(a.n * (b.d \div g) + b.n * (a.d \div g), (a.d \div g) * b.d)

Neg(a) == [n |-> -a.n, d |-> a.d]

Sub(a, b) == Add(a, Neg(b))

Mul(a, b) ==
    LET g1 == GCD(Abs(a.n), b.d)
        g2 == GCD(Abs(b.n), a.d)
    IN  Rat((a.n \div g1) * (b.n \div g2), (a.d \div g2) * (b.d \div g1))

\* b is not zero where the source divides.
Div(a, b) ==
    Mul(a, IF b.n > 0 THEN [n |-> b.d, d |-> b.n] ELSE [n |-> -b.d, d |-> -b.n])

\* m times the smallest positive double, 2^-1074, for m >= 1: a subnormal,
\* written with denominator 0.  A threshold that a caller passes as
\* max_threshold, or that 0.9 has been multiplied into often enough, is one;
\* every positive value the rationals above stand for is greater.
Subnormal(m) == [n |-> m, d |-> 0]

Cmp(a, b) ==
    IF a.d = 0 /\ b.d = 0 THEN a.n - b.n
    ELSE IF a.d = 0 THEN (IF b.n > 0 THEN -1 ELSE 1)
    ELSE IF b.d = 0 THEN (IF a.n > 0 THEN 1 ELSE -1)
    ELSE LET g == GCD(a.d, b.d)
         IN  a.n * (b.d \div g) - b.n * (a.d \div g)

Less(a, b) == Cmp(a, b) < 0

Leq(a, b) == Cmp(a, b) <= 0

Greater(a, b) == Cmp(a, b) > 0

Geq(a, b) == Cmp(a, b) >= 0

RECURSIVE SumSet(_, _)
\* sum([f[x] for x in S]) for a set S
SumSet(f, S) ==
    IF S = {} THEN Zero
    ELSE LET x == CHOOSE y \in S : TRUE
         IN  Add(f[x], SumSet(f, S \ {x}))

RECURSIVE SumInt(_, _)
\* sum([f[x] for x in S]) of integers
SumInt(f, S) ==
    IF S = {} THEN 0
    ELSE LET x == CHOOSE y \in S : TRUE
         IN  f[x] + SumInt(f, S \ {x})

RECURSIVE SumSeq(_)
\* sum(list)
SumSeq(s) == IF s = <<>> THEN Zero ELSE Add(Head(s), SumSeq(Tail(s)))

\* len(...) as a float operand
Len1(S) == FromInt(Cardinality(S))

Magnitude(a) == IF Abs(a.n) > a.d THEN Abs(a.n) ELSE a.d

----------------------------------------------------------------------------
(* Behavior, Energy, State.                                                *)

\* 0.9 in update_behaviors: the share of previous_activation that is kept
ActivationDecay == [n |-> 9, d |-> 10]

\* threshold *= 0.8 in place of 0.9
ThresholdDecay_slip == [n |-> 8, d |-> 10]

\* 0.9 in run: threshold *= 0.9
ThresholdDecay == [n |-> 9, d |-> 10]

\* self.threshold *= 0.9.  On a subnormal the product is rounded to the
\* nearest multiple of 2^-1074; the double 0.9 is a little above 9/10, so a
\* product half way between two multiples goes up.
decay(t) ==
    IF t.d = 0 THEN Subnormal((9 * t.n + 5) \div 10) ELSE Mul(t, ThresholdDecay)

\* Behavior.__init__
Behavior(label, preconditions, additions, deletions) ==
    [label |-> label,
     preconditions |-> preconditions,
     additions |-> additions,
     deletions |-> deletions,
     previous_activation |-> Zero,
     current_activation |-> Zero,
     executable |-> FALSE]

\* Energy.__init__
Energy(data_energy, goals_energy, conf_energy, mean_energy) ==
    [data |-> FromInt(data_energy),
     goals |-> FromInt(goals_energy),
     conf |-> FromInt(conf_energy),
     mean |-> FromInt(mean_energy)]

\* Energy() with the default arguments
DefaultEnergy == Energy(20, 70, 50, 20)

\* State.__init__
State(data, goals, protected_goals) ==
    [data |-> data, goals |-> goals, protected_goals |-> protected_goals]

----------------------------------------------------------------------------
(* Network: lookup helpers.  B is the behavior list, b / source /          *)
(* destination / taker / target are positions in it.                       *)

behaviors_that_need(B, item) ==
    {i \in DOMAIN B : item \in B[i].preconditions}

behaviors_that_add(B, item) ==
    {i \in DOMAIN B : item \in B[i].additions}

behaviors_that_delete(B, item) ==
    {i \in DOMAIN B : item \in B[i].deletions}

\* sum(...) / len(self.behaviors) raises ZeroDivisionError for an empty list
mean_activation_raises(B) == Len(B) = 0

\* the sum divided by one more than the number of behaviors
mean_activation_biased(B) ==
    Div(SumSeq([i \in DOMAIN B |-> B[i].current_activation]),
        FromInt(Len(B) + 1))

mean_activation(B) ==
    Div(SumSeq([i \in DOMAIN B |-> B[i].current_activation]),
        FromInt(Len(B)))

----------------------------------------------------------------------------
(* Network: energy-flow equations.                                         *)

input_from_data(B, e, b, s) ==
    Mul(e.data,
        SumSet([item \in (s.data \cup s.protected_goals) \cap B[b].preconditions |->
                   Mul(Div(One, Len1(behaviors_that_need(B, item))),
                       Div(One, Len1(B[b].preconditions)))],
               (s.data \cup s.protected_goals) \cap B[b].preconditions))

\* input_from_goals without the division among the behaviors that add the item
input_from_goals_unsplit(B, e, b, s) ==
    Mul(e.goals,
        SumSet([item \in s.goals \cap B[b].additions |->
                   Div(One, Len1(B[b].additions))],
               s.goals \cap B[b].additions))

input_from_goals(B, e, b, s) ==
    Mul(e.goals,
        SumSet([item \in s.goals \cap B[b].additions |->
                   Mul(Div(One, Len1(behaviors_that_add(B, item))),
                       Div(One, Len1(B[b].additions)))],
               s.goals \cap B[b].additions))

taken_by_protected_goals(B, e, b, s) ==
    Mul(e.conf,
        SumSet([item \in s.protected_goals \cap B[b].deletions |->
                   Mul(Div(One, Len1(behaviors_that_delete(B, item))),
                       Div(One, Len1(B[b].deletions)))],
               s.protected_goals \cap B[b].deletions))

spread_backwards(B, e, source, destination, s) ==
    IF B[source].executable
    THEN Zero
    ELSE Mul(B[source].previous_activation,
             SumSet([item \in (B[source].preconditions \cap B[destination].additions) \ s.data |->
                        Mul(Div(One, Len1(behaviors_that_add(B, item))),
                            Div(One, Len1(B[destination].additions)))],
                    (B[source].preconditions \cap B[destination].additions) \ s.data))

\* spread_forward without the test of source.executable
spread_forward_ungated(B, e, source, destination, s) ==
    Mul(Mul(B[source].previous_activation, Div(e.data, e.goals)),
        SumSet([item \in (B[source].additions \cap B[destination].preconditions) \ s.data |->
                   Mul(Div(One, Len1(behaviors_that_need(B, item))),
                       Div(One, Len1(B[destination].preconditions)))],
               (B[source].additions \cap B[destination].preconditions) \ s.data))

spread_forward(B, e, source, destination, s) ==
    IF B[source].executable
    THEN Zero
    ELSE Mul(Mul(B[source].previous_activation, Div(e.data, e.goals)),
             SumSet([item \in (B[source].additions \cap B[destination].preconditions) \ s.data |->
                        Mul(Div(One, Len1(behaviors_that_need(B, item))),
                            Div(One, Len1(B[destination].preconditions)))],
                    (B[source].additions \cap B[destination].preconditions) \ s.data))

take_away(B, e, taker, source, s) ==
    IF /\ Less(B[taker].previous_activation, B[source].previous_activation)
       /\ Cardinality(s.data \cap B[source].preconditions \cap B[taker].deletions) > 0
    THEN Zero
    ELSE Mul(Mul(B[taker].previous_activation, Div(e.conf, e.goals)),
             SumSet([item \in B[taker].preconditions \cap B[source].deletions \cap s.data |->
                        Mul(Div(One, Len1(behaviors_that_delete(B, item))),
                            Div(One, Len1(B[source].deletions)))],
                    B[taker].preconditions \cap B[source].deletions \cap s.data))

----------------------------------------------------------------------------
(* Network: where the energy-flow equations divide.  Each predicate is     *)
(* true when a divisor of the expression the function evaluates is zero,   *)
(* which raises ZeroDivisionError.                                         *)

input_from_data_raises(B, e, b, s) ==
    \E item \in (s.data \cup s.protected_goals) \cap B[b].preconditions :
        \/ Cardinality(behaviors_that_need(B, item)) = 0
        \/ Cardinality(B[b].preconditions) = 0

input_from_goals_raises(B, e, b, s) ==
    \E item \in s.goals \cap B[b].additions :
        \/ Cardinality(behaviors_that_add(B, item)) = 0
        \/ Cardinality(B[b].additions) = 0

taken_by_protected_goals_raises(B, e, b, s) ==
    \E item \in s.protected_goals \cap B[b].deletions :
        \/ Cardinality(behaviors_that_delete(B, item)) = 0
        \/ Cardinality(B[b].deletions) = 0

spread_backwards_raises(B, e, source, destination, s) ==
    /\ ~B[source].executable
    /\ \E item \in (B[source].preconditions \cap B[destination].additions) \ s.data :
          \/ Cardinality(behaviors_that_add(B, item)) = 0
          \/ Cardinality(B[destination].additions) = 0

\* self.energy.data / self.energy.goals is evaluated in the else branch
\* whatever the items are.
spread_forward_raises(B, e, source, destination, s) ==
    /\ ~B[source].executable
    /\ \/ e.goals = Zero
       \/ \E item \in (B[source].additions \cap B[destination].preconditions) \ s.data :
             \/ Cardinality(behaviors_that_need(B, item)) = 0
             \/ Cardinality(B[destination].preconditions) = 0

\* self.energy.conf / self.energy.goals is evaluated in the else branch
\* whatever the items are.
take_away_raises(B, e, taker, source, s) ==
    /\ ~ (/\ Less(B[taker].previous_activation, B[source].previous_activation)
          /\ Cardinality(s.data \cap B[source].preconditions \cap B[taker].deletions) > 0)
    /\ \/ e.goals = Zero
       \/ \E item \in B[taker].preconditions \cap B[source].deletions \cap s.data :
             \/ Cardinality(behaviors_that_delete(B, item)) = 0
             \/ Cardinality(B[source].deletions) = 0

behavior_spread_raises(B, e, target, s) ==
    \E behavior \in DOMAIN B \ {target} :
        \/ spread_backwards_raises(B, e, behavior, target, s)
        \/ spread_forward_raises(B, e, behavior, target, s)
        \/ take_away_raises(B, e, behavior, target, s)

----------------------------------------------------------------------------
(* Network: energy flow between behaviors, summed.                         *)

behavior_spread(B, e, target, s) ==
    SumSet([behavior \in DOMAIN B \ {target} |->
               Sub(Add(spread_backwards(B, e, behavior, target, s),
                       spread_forward(B, e, behavior, target, s)),
                   take_away(B, e, behavior, target, s))],
           DOMAIN B \ {target})

----------------------------------------------------------------------------
(* Network: cycle orchestration.                                           *)

\* the sum without the clamp at 0
Max0_unclamped(x) == x

\* max(x, 0)
Max0(x) == IF Greater(Zero, x) THEN Zero ELSE x

\* The activation update_behaviors assigns to behavior b, read from list B.
activation(B, e, b, s) ==
    Max0(Add(Sub(Add(Add(Mul(ActivationDecay, B[b].previous_activation),
                         input_from_data(B, e, b, s)),
                     input_from_goals(B, e, b, s)),
                 taken_by_protected_goals(B, e, b, s)),
             behavior_spread(B, e, b, s)))

\* behavior.preconditions <= (state.data | state.protected_goals)
is_executable(b, s) == b.preconditions \subseteq (s.data \cup s.protected_goals)

\* The sum that update_behaviors assigns raises when one of its terms does.
activation_raises(B, e, b, s) ==
    \/ input_from_data_raises(B, e, b, s)
    \/ input_from_goals_raises(B, e, b, s)
    \/ taken_by_protected_goals_raises(B, e, b, s)
    \/ behavior_spread_raises(B, e, b, s)

RECURSIVE update_loop(_, _, _, _)
\* The for loop of update_behaviors from position i on: each behavior gets its
\* executable flag and then its activation, in list order, in place.  The loop
\* ends early, with what it has assigned so far, when an activation raises.
update_loop(B, e, s, i) ==
    IF i > Len(B) THEN B
    ELSE LET B1 == [B EXCEPT ![i].executable = is_executable(B[i], s)]
             B2 == [B1 EXCEPT ![i].current_activation = activation(B1, e, i, s)]
         IN  IF activation_raises(B1, e, i, s) THEN B1
             ELSE update_loop(B2, e, s, i + 1)

RECURSIVE update_loop_raises(_, _, _, _)
\* The for loop of update_behaviors from position i on raises.  No divisor
\* reads current_activation, so the flags are all this needs to assign.
update_loop_raises(B, e, s, i) ==
    IF i > Len(B) THEN FALSE
    ELSE LET B1 == [B EXCEPT ![i].executable = is_executable(B[i], s)]
         IN  \/ activation_raises(B1, e, i, s)
             \/ update_loop_raises(B1, e, s, i + 1)

\* relax scaling by the inverse ratio
relax_inverted(B, e) ==
    LET current_mean_activation == mean_activation(B)
    IN  IF Greater(current_mean_activation, e.mean)
        THEN [i \in DOMAIN B |->
                LET scaled == Mul(B[i].current_activation,
                                  Div(current_mean_activation, e.mean))
                IN  [B[i] EXCEPT !.current_activation = scaled,
                                 !.previous_activation = scaled]]
        ELSE B

\* relax scaling already when the mean equals energy.mean
relax_geq(B, e) ==
    LET current_mean_activation == mean_activation(B)
    IN  IF Geq(current_mean_activation, e.mean)
        THEN [i \in DOMAIN B |->
                LET scaled == Mul(B[i].current_activation,
                                  Div(e.mean, current_mean_activation))
                IN  [B[i] EXCEPT !.current_activation = scaled,
                                 !.previous_activation = scaled]]
        ELSE B

relax(B, e) ==
    LET current_mean_activation == mean_activation(B)
    IN  IF Greater(current_mean_activation, e.mean)
        THEN [i \in DOMAIN B |->
                LET scaled == Mul(B[i].current_activation,
                                  Div(e.mean, current_mean_activation))
                IN  [B[i] EXCEPT !.current_activation = scaled,
                                 !.previous_activation = scaled]]
        ELSE B

\* relax() begins with mean_activation(), whose fault it does not catch.
relax_raises(B) == mean_activation_raises(B)

update_behaviors(B, e, s) == relax(update_loop(B, e, s, 1), e)

\* update_behaviors catches neither a fault of its loop nor one of the
\* relax() it ends with.
update_behaviors_raises(B, e, s) ==
    \/ update_loop_raises(B, e, s, 1)
    \/ relax_raises(B)

\* active without the test of the executable flag
active_unchecked(B, t, b) == Geq(B[b].current_activation, t)

\* active with > in place of >=
active_above(B, t, b) ==
    B[b].executable /\ Greater(B[b].current_activation, t)

active(B, t, b) ==
    B[b].executable /\ Geq(B[b].current_activation, t)

\* None, among positions of the behavior list
None == 0

\* Behavior.__gt__
Behavior_gt(B, self, other) ==
    IF other = None THEN TRUE
    ELSE Greater(B[self].current_activation, B[other].current_activation)

\* __lt__ answering True for None, as __gt__ does
Behavior_lt_none(B, self, other) ==
    IF other = None THEN TRUE
    ELSE Less(B[self].current_activation, B[other].current_activation)

\* Behavior.__lt__
Behavior_lt(B, self, other) ==
    IF other = None THEN FALSE
    ELSE Less(B[self].current_activation, B[other].current_activation)

\* x >= y in place of x > y: a later item of equal activation wins
py_ge(B, x, y) ==
    IF x = None THEN FALSE
    ELSE IF y = None THEN TRUE
    ELSE Geq(B[x].current_activation, B[y].current_activation)

\* x > y as max() evaluates it: None has no ordering of its own, so the
\* comparison is answered by the reflected y.__lt__(x).
py_gt(B, x, y) ==
    IF x = None THEN Behavior_lt(B, y, x) ELSE Behavior_gt(B, x, y)

RECURSIVE py_max(_, _, _)
\* max(list): the scan keeps the first item and replaces it by a later one
\* only when that one is greater.
py_max(B, best, rest) ==
    IF rest = <<>> THEN best
    ELSE py_max(B, IF py_gt(B, Head(rest), best) THEN Head(rest) ELSE best,
                Tail(rest))

positions(B) == [i \in DOMAIN B |-> i]

active_behavior(B, t) ==
    LET is_active(b) == active(B, t, b)
        candidates == SelectSeq(positions(B), is_active) \o <<None>>
    IN  py_max(B, Head(candidates), Tail(candidates))

\* execute without its assertion
execute_unasserted(b) == FALSE

\* assert self.executable is True, the first statement of Behavior.execute,
\* raises AssertionError otherwise
execute_raises(b) == b.executable # TRUE

\* execute that also drops the preconditions it has used
execute_consuming(b) == [b EXCEPT !.current_activation = Zero, !.preconditions = {}]

\* execute without the reset of current_activation
execute_keep(b) == b

\* Behavior.execute, past its assertion: the activation is reset.
execute(b) == [b EXCEPT !.current_activation = Zero]

----------------------------------------------------------------------------
(* Inputs the model draws from.                                            *)

Items == {"foo", "bar"}

\* (preconditions, additions, deletions) of the behaviors networks are built from
BehaviorPool ==
    { <<{}, {"foo"}, {}>>,
      <<{"foo"}, {"bar"}, {}>>,
      <<{"bar"}, {}, {"foo"}>>,
      <<{"foo"}, {}, {"bar"}>>,
      <<{}, {}, {}>>,
      <<{"foo", "bar"}, {}, {}>> }

Networks ==
    UNION { { [i \in 1..n |-> Behavior(i, f[i][1], f[i][2], f[i][3])] :
                f \in [1..n -> BehaviorPool] } : n \in 0..MaxBehaviors }

\* max_threshold arguments: the default 45 and a low one
MaxThresholds == {FromInt(45), FromInt(10)}

\* State arguments of run, as (data, goals, protected_goals)
States ==
    { State({}, {}, {}),
      State({"foo"}, {}, {}),
      State({"foo"}, {"foo"}, {}),
      State({}, {"foo"}, {}),
      State({"bar"}, {"bar"}, {}),
      State({"foo", "bar"}, {"bar"}, {}),
      State({"bar"}, {"foo"}, {"foo"}),
      State({"foo", "bar"}, {}, {"foo"}) }

----------------------------------------------------------------------------
(* State machine.                                                          *)

VARIABLES
    behaviors,          \* Network.behaviors
    energy,             \* Network.energy
    threshold,          \* Network.threshold
    max_threshold,      \* Network.max_threshold
    called,             \* "init", or the method called last
    state,              \* the State argument of the last call
    before,             \* behaviors when the last call began
    threshold_before,   \* threshold when the last call began
    updated,            \* behaviors when the loop of update_behaviors ended
    relaxed,            \* behaviors when relax() returned
    executed,           \* labels whose action.execute() the last call invoked
    raised,             \* the exception the last call raised, "" for none
    argument,           \* what the last call was given: positions of behaviors,
                        \* or the arrays given to a memory
    result,             \* what the last call returned, <<>> for nothing
    memory,             \* the attributes of the associative memory
    stored              \* arguments of the store calls that made memory.content

vars == <<behaviors, energy, threshold, max_threshold, called, state, before,
          threshold_before, updated, relaxed, executed, raised, argument, result,
          memory, stored>>

\* The variables of the behavior network and of the associative memories.
network_vars == <<behaviors, energy, threshold, max_threshold, state, before,
                  threshold_before, updated, relaxed, executed>>

memory_vars == <<memory, stored>>

\* No associative memory has been constructed.
NoMemory == memory = <<>> /\ stored = <<>>

\* Network.__init__ over freshly constructed behaviors
Init ==
    /\ behaviors \in Networks
    /\ energy = DefaultEnergy
    /\ max_threshold \in MaxThresholds
    /\ threshold = max_threshold
    /\ called = "init"
    /\ state = State({}, {}, {})
    /\ before = behaviors
    /\ threshold_before = threshold
    /\ updated = behaviors
    /\ relaxed = behaviors
    /\ executed = <<>>
    /\ raised = ""
    /\ argument = <<>>
    /\ result = <<>>
    /\ NoMemory

Small ==
    /\ Magnitude(threshold) <= MaxMagnitude
    /\ \A i \in DOMAIN behaviors :
          /\ Magnitude(behaviors[i].previous_activation) <= MaxMagnitude
          /\ Magnitude(behaviors[i].current_activation) <= MaxMagnitude

\* Network.run(s)
run(s) ==
    /\ Small
    /\ IF update_behaviors_raises(behaviors, energy, s)
       THEN /\ raised' = "ZeroDivisionError"
            /\ executed' = <<>>
            /\ behaviors' = update_loop(behaviors, energy, s, 1)
            /\ updated' = behaviors'
            /\ UNCHANGED <<threshold, relaxed>>
       ELSE /\ \E loop \in {update_loop(behaviors, energy, s, 1)} :
               \E B \in {relax(loop, energy)} :
               \E behavior \in {active_behavior(B, threshold)} :
                  /\ IF behavior = None
                     THEN /\ behaviors' = B
                          /\ threshold' = decay(threshold)
                          /\ executed' = <<>>
                          /\ raised' = ""
                     ELSE IF execute_raises(B[behavior])
                     THEN /\ behaviors' = B
                          /\ threshold' = threshold
                          /\ executed' = <<>>
                          /\ raised' = "AssertionError"
                     ELSE /\ behaviors' = [B EXCEPT ![behavior] = execute(B[behavior])]
                          /\ threshold' = max_threshold
                          /\ executed' = <<B[behavior].label>>
                          /\ raised' = ""
                  /\ updated' = loop
                  /\ relaxed' = B
    /\ called' = "run"
    /\ state' = s
    /\ before' = behaviors
    /\ threshold_before' = threshold
    /\ argument' = <<>>
    /\ result' = <<>>
    /\ UNCHANGED <<energy, max_threshold, memory_vars>>

Next == \E s \in States : run(s)

Spec == Init /\ [][Next]_vars

\* Network.__init__ with a subnormal max_threshold
InitSubnormal ==
    /\ behaviors \in Networks
    /\ energy = DefaultEnergy
    /\ max_threshold \in {Subnormal(m) : m \in 1..MaxSubnormal}
    /\ threshold = max_threshold
    /\ called = "init"
    /\ state = State({}, {}, {})
    /\ before = behaviors
    /\ threshold_before = threshold
    /\ updated = behaviors
    /\ relaxed = behaviors
    /\ executed = <<>>
    /\ raised = ""
    /\ argument = <<>>
    /\ result = <<>>
    /\ NoMemory

SpecSubnormal == InitSubnormal /\ [][Next]_vars

\* A network of one behavior whose caller has set threshold to 0 before the
\* first run.
InitZero ==
    /\ behaviors \in {B \in Networks : Len(B) = 1}
    /\ energy = DefaultEnergy
    /\ max_threshold \in MaxThresholds
    /\ threshold = Zero
    /\ called = "init"
    /\ state = State({}, {}, {})
    /\ before = behaviors
    /\ threshold_before = threshold
    /\ updated = behaviors
    /\ relaxed = behaviors
    /\ executed = <<>>
    /\ raised = ""
    /\ argument = <<>>
    /\ result = <<>>
    /\ NoMemory

SpecZero == InitZero /\ [][Next]_vars

----------------------------------------------------------------------------
(* Direct calls.  The methods of Network and Behavior are public, and so   *)
(* are the attributes: the doctests of the source assign                   *)
(* previous_activation, current_activation and executable before they call *)
(* one method.  SpecCalls starts from networks with attributes assigned    *)
(* that way and makes such calls.                                          *)

\* Attribute values a caller assigns to a behavior.
Fresh == [previous_activation |-> Zero, current_activation |-> Zero,
          executable |-> FALSE]

Low == [previous_activation |-> FromInt(5), current_activation |-> FromInt(20),
        executable |-> TRUE]

High == [previous_activation |-> FromInt(10), current_activation |-> FromInt(40),
         executable |-> FALSE]

\* Which values the behavior at position i is given.
Profiles ==
    { [i \in 1..MaxBehaviors |-> Fresh],
      [i \in 1..MaxBehaviors |-> Low],
      [i \in 1..MaxBehaviors |-> IF i % 2 = 1 THEN Low ELSE High],
      [i \in 1..MaxBehaviors |-> IF i % 2 = 1 THEN High ELSE Low] }

assign(B, p) ==
    [i \in DOMAIN B |->
        [B[i] EXCEPT !.previous_activation = p[i].previous_activation,
                     !.current_activation = p[i].current_activation,
                     !.executable = p[i].executable]]

AssignedNetworks == { assign(B, p) : B \in Networks, p \in Profiles }

\* Energy arguments: the defaults, and no energy from goals.
Energies == {DefaultEnergy, Energy(20, 0, 50, 20)}

InitCalls ==
    /\ behaviors \in AssignedNetworks
    /\ energy \in Energies
    /\ max_threshold = FromInt(45)
    /\ threshold = max_threshold
    /\ called = "init"
    /\ state = State({}, {}, {})
    /\ before = behaviors
    /\ threshold_before = threshold
    /\ updated = behaviors
    /\ relaxed = behaviors
    /\ executed = <<>>
    /\ raised = ""
    /\ argument = <<>>
    /\ result = <<>>
    /\ NoMemory

\* Network.relax(), called first or again after relax()
call_relax ==
    /\ called \in {"init", "relax", "relax again"}
    /\ IF relax_raises(behaviors)
       THEN raised' = "ZeroDivisionError" /\ UNCHANGED behaviors
       ELSE raised' = "" /\ behaviors' = relax(behaviors, energy)
    /\ called' = IF called = "init" THEN "relax" ELSE "relax again"
    /\ before' = behaviors
    /\ threshold_before' = threshold
    /\ executed' = <<>>
    /\ argument' = <<>>
    /\ result' = <<>>
    /\ UNCHANGED <<energy, threshold, max_threshold, state, updated, relaxed, memory_vars>>

\* What a call that only reads the network leaves behind: its name, its
\* arguments and what it returned.
returns(name, arguments, s, value) ==
    /\ called' = name
    /\ argument' = arguments
    /\ state' = s
    /\ result' = <<value>>
    /\ raised' = ""
    /\ executed' = <<>>
    /\ before' = behaviors
    /\ threshold_before' = threshold
    /\ UNCHANGED <<behaviors, energy, threshold, max_threshold, updated, relaxed, memory_vars>>

\* What a call that only reads the network leaves behind when it raises.
raises(name, arguments, s, exception) ==
    /\ called' = name
    /\ argument' = arguments
    /\ state' = s
    /\ result' = <<>>
    /\ raised' = exception
    /\ executed' = <<>>
    /\ before' = behaviors
    /\ threshold_before' = threshold
    /\ UNCHANGED <<behaviors, energy, threshold, max_threshold, updated, relaxed, memory_vars>>

\* Network.input_from_data(behavior, s) for a behavior of the list
call_input_from_data(b, s) ==
    /\ called = "init"
    /\ IF input_from_data_raises(behaviors, energy, b, s)
       THEN raises("input_from_data", <<b>>, s, "ZeroDivisionError")
       ELSE returns("input_from_data", <<b>>, s,
                    input_from_data(behaviors, energy, b, s))

\* Network.input_from_goals(behavior, s) for a behavior of the list
call_input_from_goals(b, s) ==
    /\ called = "init"
    /\ IF input_from_goals_raises(behaviors, energy, b, s)
       THEN raises("input_from_goals", <<b>>, s, "ZeroDivisionError")
       ELSE returns("input_from_goals", <<b>>, s,
                    input_from_goals(behaviors, energy, b, s))

\* Network.taken_by_protected_goals(behavior, s) for a behavior of the list
call_taken_by_protected_goals(b, s) ==
    /\ called = "init"
    /\ IF taken_by_protected_goals_raises(behaviors, energy, b, s)
       THEN raises("taken_by_protected_goals", <<b>>, s, "ZeroDivisionError")
       ELSE returns("taken_by_protected_goals", <<b>>, s,
                    taken_by_protected_goals(behaviors, energy, b, s))

\* Network.spread_backwards(source, destination, s) for behaviors of the list
call_spread_backwards(source, destination, s) ==
    /\ called = "init"
    /\ IF spread_backwards_raises(behaviors, energy, source, destination, s)
       THEN raises("spread_backwards", <<source, destination>>, s, "ZeroDivisionError")
       ELSE returns("spread_backwards", <<source, destination>>, s,
                    spread_backwards(behaviors, energy, source, destination, s))

\* Network.spread_forward(source, destination, s) for behaviors of the list
call_spread_forward(source, destination, s) ==
    /\ called = "init"
    /\ IF spread_forward_raises(behaviors, energy, source, destination, s)
       THEN raises("spread_forward", <<source, destination>>, s, "ZeroDivisionError")
       ELSE returns("spread_forward", <<source, destination>>, s,
                    spread_forward(behaviors, energy, source, destination, s))

\* Network.take_away(taker, source, s) for behaviors of the list
call_take_away(taker, source, s) ==
    /\ called = "init"
    /\ IF take_away_raises(behaviors, energy, taker, source, s)
       THEN raises("take_away", <<taker, source>>, s, "ZeroDivisionError")
       ELSE returns("take_away", <<taker, source>>, s,
                    take_away(behaviors, energy, taker, source, s))

\* Network.behavior_spread(target, s) for a behavior of the list
call_behavior_spread(target, s) ==
    /\ called = "init"
    /\ IF behavior_spread_raises(behaviors, energy, target, s)
       THEN raises("behavior_spread", <<target>>, s, "ZeroDivisionError")
       ELSE returns("behavior_spread", <<target>>, s,
                    behavior_spread(behaviors, energy, target, s))

\* Network.mean_activation()
call_mean_activation ==
    /\ called = "init"
    /\ IF mean_activation_raises(behaviors)
       THEN raises("mean_activation", <<>>, state, "ZeroDivisionError")
       ELSE returns("mean_activation", <<>>, state, mean_activation(behaviors))

\* Network.update_behaviors(s)
call_update_behaviors(s) ==
    /\ called = "init"
    /\ IF update_behaviors_raises(behaviors, energy, s)
       THEN /\ raised' = "ZeroDivisionError"
            /\ behaviors' = update_loop(behaviors, energy, s, 1)
            /\ updated' = behaviors'
            /\ UNCHANGED relaxed
       ELSE /\ raised' = ""
            /\ behaviors' = update_behaviors(behaviors, energy, s)
            /\ updated' = update_loop(behaviors, energy, s, 1)
            /\ relaxed' = behaviors'
    /\ called' = "update_behaviors"
    /\ state' = s
    /\ before' = behaviors
    /\ threshold_before' = threshold
    /\ executed' = <<>>
    /\ argument' = <<>>
    /\ result' = <<>>
    /\ UNCHANGED <<energy, threshold, max_threshold, memory_vars>>

\* Network.run(s) as the first call
call_run(s) == called = "init" /\ run(s)

\* Behavior.execute() of the behavior at position b
call_execute(b) ==
    /\ called = "init"
    /\ IF execute_raises(behaviors[b])
       THEN /\ raised' = "AssertionError"
            /\ executed' = <<>>
            /\ UNCHANGED behaviors
       ELSE /\ raised' = ""
            /\ behaviors' = [behaviors EXCEPT ![b] = execute(behaviors[b])]
            /\ executed' = <<behaviors[b].label>>
    /\ called' = "execute"
    /\ argument' = <<b>>
    /\ result' = <<>>
    /\ before' = behaviors
    /\ threshold_before' = threshold
    /\ UNCHANGED <<energy, threshold, max_threshold, state, updated, relaxed, memory_vars>>

NextCalls ==
    \/ call_mean_activation
    \/ call_relax
    \/ \E s \in States : call_update_behaviors(s)
    \/ \E s \in States : call_run(s)
    \/ \E b \in DOMAIN behaviors : call_execute(b)
    \/ \E b \in DOMAIN behaviors, s \in States :
          \/ call_input_from_data(b, s)
          \/ call_input_from_goals(b, s)
          \/ call_taken_by_protected_goals(b, s)
          \/ call_behavior_spread(b, s)
    \/ \E source, destination \in DOMAIN behaviors, s \in States :
          \/ call_spread_backwards(source, destination, s)
          \/ call_spread_forward(source, destination, s)
          \/ call_take_away(source, destination, s)

SpecCalls == InitCalls /\ [][NextCalls]_vars

----------------------------------------------------------------------------
(* Arrays of numpy, as the memories use them (cogbox/memory).  A           *)
(* one-dimensional array is a sequence, a matrix a sequence of rows.  What *)
(* a method returns is kept with its shape: the sum() of no rows is the    *)
(* number 0, not an array.                                                 *)

Array(data) == [shape |-> <<Len(data)>>, data |-> data]

Scalar(x) == [shape |-> <<>>, data |-> <<x>>]

\* numpy.array_equal, by which the tests compare
array_equal(a1, a2) == a1.shape = a2.shape /\ a1.data = a2.data

\* Arrays of n bits
Bits(n) == [1..n -> {0, 1}]

\* convert: 2 * array - 1, from {0, 1} to {-1, 1}
convert(array) == [i \in DOMAIN array |-> 2 * array[i] - 1]

RECURSIVE inner(_, _)
\* numpy.inner of two one-dimensional arrays of one length
inner(x, y) ==
    IF x = <<>> THEN 0 ELSE Head(x) * Head(y) + inner(Tail(x), Tail(y))

\* numpy.clip of one number
\* clip that lets every value through
clip_open(x, lo, hi) == x

clip(x, lo, hi) == IF x < lo THEN lo ELSE IF x > hi THEN hi ELSE x

\* numpy.clip(a, lo, hi) of what sum() returned
clip_all(a, lo, hi) ==
    [shape |-> a.shape, data |-> [i \in DOMAIN a.data |-> clip(a.data[i], lo, hi)]]

RECURSIVE add_rows(_, _)
\* The rows added up, one after the other, onto total.
add_rows(total, rows) ==
    IF rows = <<>> THEN total
    ELSE add_rows([j \in DOMAIN Head(rows) |-> total[j] + Head(rows)[j]], Tail(rows))

\* The builtin sum(rows): 0 + rows[0] + rows[1] + ..., which is the number 0
\* when there is no row.
py_sum(rows) ==
    IF rows = <<>> THEN Scalar(0)
    ELSE Array(add_rows([j \in DOMAIN Head(rows) |-> 0 + Head(rows)[j]], Tail(rows)))

----------------------------------------------------------------------------
(* SparseDistributedMemory (cogbox/memory/sdm.py).                         *)

\* numpy.ones(word_length) * 15
CounterRange == 15

\* SparseDistributedMemory.__init__, with drawn the matrix that
\* numpy.random.randint(0, 2, (memory_size, address_length)) returned
SparseDistributedMemory(memory_size, address_length, word_length, activation_radius, drawn) ==
    [hard_addresses |-> [k \in 1..memory_size |-> convert(drawn[k])],
     activation_threshold |-> address_length - 2 * activation_radius,
     counter_range |-> [j \in 1..word_length |-> 1 * CounterRange],
     content |-> [k \in 1..memory_size |-> [j \in 1..word_length |-> 0]]]

\* The boolean mask of the activated hard locations.
_active_locations(m, address) ==
    [k \in DOMAIN m.hard_addresses |->
        inner(m.hard_addresses[k], convert(address)) >= m.activation_threshold]

\* store: the attributes of the memory after store(address, word)
SparseDistributedMemory_store(m, address, word) ==
    LET mask == _active_locations(m, address)
    IN  [m EXCEPT !.content =
            [k \in DOMAIN m.content |->
                IF mask[k]
                THEN [j \in DOMAIN m.content[k] |->
                         clip(m.content[k][j] + convert(word)[j],
                              -m.counter_range[j], m.counter_range[j])]
                ELSE m.content[k]]]

\* retrieve: what retrieve(address) returns
SparseDistributedMemory_retrieve(m, address) ==
    LET mask == _active_locations(m, address)
        activated(k) == mask[k]
        selected == SelectSeq([k \in DOMAIN m.content |-> k], activated)
    IN  clip_all(py_sum([n \in DOMAIN selected |-> m.content[selected[n]]]), 0, 1)

\* Constructor arguments (memory_size, address_length, word_length,
\* activation_radius) of the memories drawn.
SDMArguments ==
    { <<1, 2, 2, 0>>, <<1, 2, 2, 1>>, <<2, 2, 2, 0>>, <<2, 2, 2, 1>>, <<2, 3, 2, 1>> }

\* No behavior network is in use.
NoNetwork ==
    /\ behaviors = <<>>
    /\ energy = DefaultEnergy
    /\ max_threshold = Zero
    /\ threshold = Zero
    /\ state = State({}, {}, {})
    /\ before = <<>>
    /\ threshold_before = Zero
    /\ updated = <<>>
    /\ relaxed = <<>>
    /\ executed = <<>>

\* A freshly constructed memory, for every matrix the constructor may draw
InitSDM ==
    /\ memory \in UNION { { SparseDistributedMemory(a[1], a[2], a[3], a[4], drawn) :
                               drawn \in [1..a[1] -> Bits(a[2])] } :
                           a \in SDMArguments }
    /\ stored = <<>>
    /\ called = "init"
    /\ argument = <<>>
    /\ result = <<>>
    /\ raised = ""
    /\ NoNetwork

\* memory.store(address, word)
sdm_store(address, word) ==
    /\ Len(stored) < MaxStores
    /\ memory' = SparseDistributedMemory_store(memory, address, word)
    /\ stored' = Append(stored, <<address, word>>)
    /\ called' = "store"
    /\ argument' = <<address, word>>
    /\ result' = <<>>
    /\ raised' = ""
    /\ UNCHANGED network_vars

\* memory.retrieve(address)
sdm_retrieve(address) ==
    /\ called' = "retrieve"
    /\ argument' = <<address>>
    /\ result' = <<SparseDistributedMemory_retrieve(memory, address)>>
    /\ raised' = ""
    /\ UNCHANGED <<memory, stored>>
    /\ UNCHANGED network_vars

NextSDM ==
    \E address \in Bits(Len(memory.hard_addresses[1])) :
        \/ \E word \in Bits(Len(memory.content[1])) : sdm_store(address, word)
        \/ sdm_retrieve(address)

SpecSDM == InitSDM /\ [][NextSDM]_vars

\* Constructor arguments of the memories whose counters are followed through
\* any number of stores.
CounterArguments ==
    { <<2, 1, 1, 0>>, <<2, 1, 1, 1>>, <<1, 1, 2, 0>> }

\* SparseDistributedMemory.__init__; argument holds the constructor's.
InitCounters ==
    /\ \E a \in CounterArguments :
          /\ memory \in { SparseDistributedMemory(a[1], a[2], a[3], a[4], drawn) :
                             drawn \in [1..a[1] -> Bits(a[2])] }
          /\ argument = a
    /\ stored = <<>>
    /\ called = "init"
    /\ result = <<>>
    /\ raised = ""
    /\ NoNetwork

\* memory.store(address, word), any number of times: the stores made are not
\* kept.
sdm_store_again(address, word) ==
    /\ memory' = SparseDistributedMemory_store(memory, address, word)
    /\ called' = "store"
    /\ argument' = <<address, word>>
    /\ result' = <<>>
    /\ raised' = ""
    /\ UNCHANGED stored
    /\ UNCHANGED network_vars

NextCounters ==
    \E address \in Bits(Len(memory.hard_addresses[1])) :
        \/ \E word \in Bits(Len(memory.content[1])) : sdm_store_again(address, word)
        \/ sdm_retrieve(address)

SpecCounters == InitCounters /\ [][NextCounters]_vars

----------------------------------------------------------------------------
(* The float64 arithmetic of the Hopfield weights.  store() builds the       *)
(* weights from 1 / word_length and size / word_length, which are rounded,  *)
(* and retrieve() takes the sign of sums of them, so the rounding decides   *)
(* what a unit becomes.  For word_length <= 8 and at most 7 words every     *)
(* value of these computations is a whole number of units of 2^-56, and a   *)
(* double is written here as sign s and magnitude w + (hi * 2^28 + lo) /    *)
(* 2^56, with hi and lo below 2^28.                                         *)

\* 2^28
Limb == 268435456

double(s, w, hi, lo) ==
    IF w = 0 /\ hi = 0 /\ lo = 0 THEN [s |-> 1, w |-> 0, hi |-> 0, lo |-> 0]
    ELSE [s |-> s, w |-> w, hi |-> hi, lo |-> lo]

IsZero(x) == x.w = 0 /\ x.hi = 0 /\ x.lo = 0

RECURSIVE spacing(_)
\* The distance between neighbouring doubles from magnitude w >= 1 on, in
\* units: 2^-52 at 1, doubling with every power of two.
spacing(w) == IF w >= 2 THEN 2 * spacing(w \div 2) ELSE 16

\* The distance between neighbouring doubles at magnitude w + hi / 2^28
ulp(w, hi) ==
    IF w >= 1 THEN spacing(w)
    ELSE IF hi >= Limb \div 2 THEN 8
    ELSE IF hi >= Limb \div 4 THEN 4
    ELSE IF hi >= Limb \div 8 THEN 2
    ELSE 1

\* The double nearest to the exact value, ties to even.  tail says what the
\* exact value has below one unit: 0 nothing, 1 less than half a unit, 2 half
\* a unit, 3 more.
round(s, w, hi, lo, tail) ==
    LET q == ulp(w, hi)
        r == lo % q
        up == IF q = 1 THEN tail = 3 \/ (tail = 2 /\ lo % 2 = 1)
              ELSE \/ 2 * r > q
                   \/ 2 * r = q /\ (tail > 0 \/ (lo \div q) % 2 = 1)
        lo1 == IF up THEN lo - r + q ELSE lo - r
        hi1 == IF lo1 = Limb THEN hi + 1 ELSE hi
        w1 == IF hi1 = Limb THEN w + 1 ELSE w
    IN  double(s, w1, hi1 % Limb, lo1 % Limb)

\* The double nearest to an exact value whose hi and lo may have run over.
carried(s, w, hi, lo) ==
    LET hi1 == hi + lo \div Limb
    IN  round(s, w + hi1 \div Limb, hi1 % Limb, lo % Limb, 0)

\* a / n of two small positive integers (from __future__ import division)
divide(a, n) ==
    LET r0 == a % n
        r1 == (r0 * Limb) % n
        r2 == (r1 * Limb) % n
        tail == IF r2 = 0 THEN 0
                ELSE IF 2 * r2 < n THEN 1
                ELSE IF 2 * r2 = n THEN 2
                ELSE 3
    IN  round(1, a \div n, (r0 * Limb) \div n, (r1 * Limb) \div n, tail)

\* x * c for a double x and a small integer c
times(x, c) ==
    IF c = 0 \/ IsZero(x) THEN double(1, 0, 0, 0)
    ELSE carried(IF c < 0 THEN -x.s ELSE x.s, x.w * Abs(c), x.hi * Abs(c), x.lo * Abs(c))

\* The magnitude of x is less than that of y.
smaller(x, y) ==
    \/ x.w < y.w
    \/ x.w = y.w /\ x.hi < y.hi
    \/ x.w = y.w /\ x.hi = y.hi /\ x.lo < y.lo

\* big - small of magnitudes, with the sign s
difference(s, big, small) ==
    LET lo == big.lo - small.lo
        borrow_lo == IF lo < 0 THEN 1 ELSE 0
        hi == big.hi - small.hi - borrow_lo
        borrow_hi == IF hi < 0 THEN 1 ELSE 0
    IN  round(s, big.w - small.w - borrow_hi, hi + borrow_hi * Limb,
              lo + borrow_lo * Limb, 0)

\* x + y
plus(x, y) ==
    IF x.s = y.s THEN carried(x.s, x.w + y.w, x.hi + y.hi, x.lo + y.lo)
    ELSE IF smaller(x, y) THEN difference(y.s, y, x)
    ELSE IF smaller(y, x) THEN difference(x.s, x, y)
    ELSE double(1, 0, 0, 0)

\* x - y
minus(x, y) == plus(x, [y EXCEPT !.s = -y.s])

----------------------------------------------------------------------------
(* HopfieldMemory (cogbox/memory/hopfield.py).                              *)

\* self.content = None
NoContent == <<>>

\* HopfieldMemory.__init__
HopfieldMemory == [content |-> NoContent]

\* numpy.dot(data.T, data)[i][j]
dot_T(data, i, j) ==
    SumInt([p \in DOMAIN data |-> data[p][i] * data[p][j]], DOMAIN data)

\* numpy.identity(word_length)[i][j]
identity(i, j) == IF i = j THEN 1 ELSE 0

\* store: the attributes of the memory after store(words)
HopfieldMemory_store(m, words) ==
    LET data == [p \in DOMAIN words |-> convert(words[p])]
        size == Len(words)
        word_length == Len(words[1])
    IN  [m EXCEPT !.content =
            [i \in 1..word_length |-> [j \in 1..word_length |->
                minus(times(divide(1, word_length), dot_T(data, i, j)),
                      times(divide(size, word_length), identity(i, j)))]]]

RECURSIVE accumulate(_, _, _, _)
\* total + row[j] * word[j] + ... + row[n] * word[n]
accumulate(row, word, j, total) ==
    IF j > Len(row) THEN total
    ELSE accumulate(row, word, j + 1, plus(total, times(row[j], word[j])))

\* numpy.dot(row, word) of a row of weights and a word of integers
dot(row, word) == accumulate(row, word, 1, double(1, 0, 0, 0))

\* numpy.sign, assigned to an element of the integer array word
sign(x) == IF IsZero(x) THEN 0 ELSE x.s

RECURSIVE settle(_, _, _, _, _)
\* The while loop of retrieve for unit i: word[i] is recomputed until the
\* value it had before the recomputation is the value it has after.  Only
\* word[i] changes in the loop and it is one of -1, 0, 1: a loop that has
\* not stopped after four recomputations is back at a value it has left
\* before and never stops.
settle(content, word, i, temp, recomputations) ==
    IF temp - word[i] = 0
    THEN [word |-> word, recomputations |-> recomputations, stops |-> TRUE]
    ELSE IF recomputations > 3
    THEN [word |-> word, recomputations |-> recomputations, stops |-> FALSE]
    ELSE settle(content, [word EXCEPT ![i] = sign(dot(content[i], word))], i,
                word[i], recomputations + 1)

RECURSIVE relax_units(_, _, _, _)
\* The for loop of retrieve over the units in the order drawn; most is the
\* greatest number of recomputations a unit has taken so far.
relax_units(content, word, order, most) ==
    IF order = <<>>
    THEN [word |-> word, recomputations |-> most, stops |-> TRUE]
    ELSE LET unit == settle(content, word, Head(order), 0, 0)
         IN  IF unit.stops
             THEN relax_units(content, unit.word, Tail(order),
                              IF unit.recomputations > most
                              THEN unit.recomputations ELSE most)
             ELSE unit

\* helper.bitify: numpy.clip(array, 0, 1)
bitify(array) == [i \in DOMAIN array |-> clip(array[i], 0, 1)]

\* retrieve, past its assertion, with order the permutation that
\* numpy.random.permutation returned
HopfieldMemory_retrieve(m, probe, order) ==
    bitify(relax_units(m.content, convert(probe), order, 0).word)

\* retrieve, past its assertion, returns: each while loop stops.
HopfieldMemory_retrieve_returns(m, probe, order) ==
    relax_units(m.content, convert(probe), order, 0).stops

\* assert len(probe) == len(self.content); len(None) is a TypeError
HopfieldMemory_retrieve_raises(m, probe) ==
    IF m.content = NoContent THEN "TypeError"
    ELSE IF Len(probe) # Len(m.content) THEN "AssertionError"
    ELSE ""

\* What numpy.random.permutation(xrange(n)) may return
permutation(n) ==
    {order \in [1..n -> 1..n] : \A i, j \in 1..n : order[i] = order[j] => i = j}

\* Stacks of one or two words of one length
WordStacks ==
    UNION { [1..size -> Bits(n)] : size \in 1..2, n \in 1..MaxWordLength }

\* The bits of a word read as a binary number
number(word) == SumInt([i \in DOMAIN word |-> word[i] * 2 ^ (i - 1)], DOMAIN word)

\* Stacks of three and more words of one length.  numpy.dot(data.T, data)
\* adds up integers over the rows, so the order of the rows makes no
\* difference to the content: the rows are taken in ascending order.
TallStacks ==
    UNION { { words \in [1..size -> Bits(n)] :
                \A p \in 1..(size - 1) : number(words[p]) <= number(words[p + 1]) } :
            size \in 3..MaxPatterns, n \in 1..MaxWordLength }

InitHopfield ==
    /\ memory = HopfieldMemory
    /\ stored = <<>>
    /\ called = "init"
    /\ argument = <<>>
    /\ result = <<>>
    /\ raised = ""
    /\ NoNetwork

\* memory.store(words).  Every store replaces the content, so the memories
\* after several stores are those after one: one store is made.
hopfield_store(words) ==
    /\ stored = <<>>
    /\ memory' = HopfieldMemory_store(memory, words)
    /\ stored' = <<words>>
    /\ called' = "store"
    /\ argument' = <<words>>
    /\ result' = <<>>
    /\ raised' = ""
    /\ UNCHANGED network_vars

\* memory.retrieve(probe), the units visited in the order drawn.  retrieve
\* works on a copy of the probe and leaves the memory as it is, so the calls
\* after a retrieve are those before it: one retrieve is made.  A call whose
\* while loop never stops neither raises nor returns: it leaves no result.
hopfield_retrieve(probe, order) ==
    /\ called # "retrieve"
    /\ called' = "retrieve"
    /\ argument' = <<probe, order>>
    /\ raised' = HopfieldMemory_retrieve_raises(memory, probe)
    /\ result' = IF raised' = "" /\ HopfieldMemory_retrieve_returns(memory, probe, order)
                 THEN <<HopfieldMemory_retrieve(memory, probe, order)>>
                 ELSE <<>>
    /\ UNCHANGED <<memory, stored>>
    /\ UNCHANGED network_vars

NextHopfield ==
    \/ /\ stored = <<>>
       /\ \E words \in WordStacks \cup TallStacks : hopfield_store(words)
    \/ /\ called # "retrieve"
       /\ \E n \in 1..MaxWordLength : \E probe \in Bits(n), order \in permutation(n) :
             hopfield_retrieve(probe, order)

SpecHopfield == InitHopfield /\ [][NextHopfield]_vars

----------------------------------------------------------------------------
(* Properties.                                                             *)

Positive(x) == Greater(x, Zero)

\* Some behavior of list B is executable and at or above threshold t.
SomeActive(B, t) ==
    \E i \in DOMAIN B : B[i].executable /\ Geq(B[i].current_activation, t)

\* Positions of the behaviors whose action the last call executed.
ExecutedPositions ==
    {i \in DOMAIN behaviors : \E k \in DOMAIN executed : executed[k] = behaviors[i].label}

\* relax() scaled the activations during the last call.
Scaled == raised = "" /\ Greater(mean_activation(updated), energy.mean)

\* C1: after relax() returns, previous_activation == current_activation for
\* every behavior, whether relax scaled the activations or not.
C1_RelaxCopiesActivation ==
    called = "run" =>
        \A i \in DOMAIN relaxed :
            relaxed[i].previous_activation = relaxed[i].current_activation

\* C2 as claimed: spread_backwards, spread_forward and take_away all return
\* exactly 0 when the source / taker behavior is executable.
C2_ExecutableGivesNothing ==
    \A s \in States : \A i, j \in DOMAIN behaviors :
        (i # j /\ behaviors[i].executable) =>
            /\ spread_backwards(behaviors, energy, i, j, s) = Zero
            /\ spread_forward(behaviors, energy, i, j, s) = Zero
            /\ take_away(behaviors, energy, i, j, s) = Zero

\* C2 amended: spread_backwards and spread_forward return exactly 0 when the
\* source is executable; take_away does not read taker.executable, it returns
\* the same amount whether the taker is executable or not.
C2_ExecutableSpreadsNothing ==
    \A s \in States : \A i, j \in DOMAIN behaviors :
        (i # j /\ behaviors[i].executable) =>
            /\ spread_backwards(behaviors, energy, i, j, s) = Zero
            /\ spread_forward(behaviors, energy, i, j, s) = Zero
            /\ take_away(behaviors, energy, i, j, s) =
                   take_away([behaviors EXCEPT ![i].executable = FALSE],
                             energy, i, j, s)

\* An executable source with energy to give and a link to give it along (only
\* the executable test makes the spread 0), and an executable taker that takes.
C2_Witness ==
    /\ \E s \in States : \E i, j \in DOMAIN behaviors :
          /\ i # j
          /\ behaviors[i].executable
          /\ Positive(behaviors[i].previous_activation)
          /\ (behaviors[i].additions \cap behaviors[j].preconditions) \ s.data # {}
    /\ \E s \in States : \E i, j \in DOMAIN behaviors :
          /\ i # j
          /\ behaviors[i].executable
          /\ Positive(take_away(behaviors, energy, i, j, s))

\* The two-phase reference of update_behaviors: every executable flag first,
\* then every activation.
two_phase(B, e, s) ==
    LET flagged == [i \in DOMAIN B |-> [B[i] EXCEPT !.executable = is_executable(B[i], s)]]
    IN  [i \in DOMAIN B |->
            [flagged[i] EXCEPT !.current_activation = activation(flagged, e, i, s)]]

\* C3: update_behaviors gives every behavior the pre-relax activation of the
\* two-phase reference (no spread term reads an executable flag of an earlier
\* cycle).
C3_TwoPhaseUpdate ==
    called = "run" =>
        \A i \in DOMAIN updated :
            updated[i].current_activation =
                two_phase(before, energy, state)[i].current_activation

\* C4: when a run begins, previous_activation is the activation the previous
\* cycle's relax() left (the state a run ends in is the state the next begins in).
C4_PreviousIsRelaxedActivation ==
    called = "run" =>
        \A i \in DOMAIN behaviors :
            behaviors[i].previous_activation = relaxed[i].current_activation

\* C5: a run executes the action of at most one behavior, of exactly one when
\* active_behavior() is not None; that behavior's activation is 0 afterwards
\* and no other behavior's activation is changed by the execution step.
C5_AtMostOneExecution ==
    called = "run" =>
        /\ Len(executed) <= 1
        /\ active_behavior(relaxed, threshold_before) # None => Len(executed) = 1
        /\ Cardinality(ExecutedPositions) = Len(executed)
        /\ \A i \in DOMAIN behaviors :
              IF i \in ExecutedPositions
              THEN behaviors[i].current_activation = Zero
              ELSE behaviors[i].current_activation = relaxed[i].current_activation

\* A run of two behaviors, both with activation, that executed one of them.
C5_Witness ==
    /\ called = "run"
    /\ Len(executed) = 1
    /\ Len(behaviors) >= 2
    /\ \A i \in DOMAIN relaxed : Positive(relaxed[i].current_activation)

\* The state a run that returned ends in, by what the update step left (a run
\* on no behaviors raises in the update step and assigns nothing).
C6_AfterRun ==
    (called = "run" /\ raised = "") =>
        IF SomeActive(relaxed, threshold_before)
        THEN threshold = max_threshold
        ELSE /\ threshold.n * 10 * threshold_before.d =
                    9 * threshold_before.n * threshold.d
             /\ executed = <<>>

\* C6: after run, threshold is 0.9 times its value before the call and no
\* action was executed if no behavior was active after the update step, and
\* is max_threshold otherwise; run never changes max_threshold.
C6_ThresholdRatchet ==
    /\ []C6_AfterRun
    /\ [][max_threshold' = max_threshold]_vars

\* A run that executed a behavior and so reset a threshold that earlier
\* runs without an active behavior had decayed.
C6_Witness ==
    /\ called = "run"
    /\ executed # <<>>
    /\ threshold_before # max_threshold
    /\ threshold = max_threshold

\* active_behavior() on list B with threshold t is None exactly when no
\* behavior is active, and a returned behavior is active.
NoneIffNoActive(B, t) ==
    LET r == active_behavior(B, t)
    IN  /\ (r = None) <=> ~SomeActive(B, t)
        /\ r # None =>
              /\ r \in DOMAIN B
              /\ B[r].executable
              /\ Geq(B[r].current_activation, t)

C8_GreatestEarliest ==
    called = "run" =>
        (SomeActive(relaxed, threshold_before) =>
            LET r == active_behavior(relaxed, threshold_before)
            IN  /\ r \in DOMAIN relaxed
                /\ active(relaxed, threshold_before, r)
                /\ \A j \in DOMAIN relaxed :
                      active(relaxed, threshold_before, j) =>
                          /\ Geq(relaxed[r].current_activation,
                                 relaxed[j].current_activation)
                          /\ relaxed[j].current_activation =
                                 relaxed[r].current_activation => r <= j)

\* Two active behaviors tied for the maximum, and the first was executed.
C8_Witness ==
    /\ called = "run"
    /\ \E i, j \in DOMAIN relaxed :
          /\ i < j
          /\ active(relaxed, threshold_before, i)
          /\ active(relaxed, threshold_before, j)
          /\ relaxed[i].current_activation = relaxed[j].current_activation
          /\ executed = <<relaxed[i].label>>

\* C9: in every reachable state every behavior's current_activation and
\* previous_activation are >= 0.
C9_NonNegative ==
    \A i \in DOMAIN behaviors :
        /\ Geq(behaviors[i].current_activation, Zero)
        /\ Geq(behaviors[i].previous_activation, Zero)
        /\ Geq(updated[i].current_activation, Zero)
        /\ Geq(relaxed[i].current_activation, Zero)
        /\ Geq(relaxed[i].previous_activation, Zero)

\* The clamp acted: protected goals took more from a behavior than it had.
C9_Witness ==
    /\ called = "run"
    /\ \E i \in DOMAIN before :
          /\ Greater(taken_by_protected_goals(before, energy, i, state),
                     Add(Add(Mul(ActivationDecay, before[i].previous_activation),
                             input_from_data(before, energy, i, state)),
                         Add(input_from_goals(before, energy, i, state),
                             behavior_spread(before, energy, i, state))))
          /\ updated[i].current_activation = Zero

RECURSIVE Factorial(_)
Factorial(n) == IF n = 0 THEN 1 ELSE n * Factorial(n - 1)

\* Positions of the behaviors of B that list item in the given set.
Listing(B, field(_), item) == {j \in DOMAIN B : item \in field(B[j])}

\* value is what behavior b gets of energy_constant when every present item of
\* its own set gives 1/|behaviors listing the item| * 1/|own set|; stated in
\* whole numbers, by multiplying with |own set| and with n! for n behaviors.
FairDivision(value, energy_constant, B, field(_), present, b) ==
    LET own == field(B[b])
        K == Factorial(Len(B))
        shares == SumInt([item \in own \cap present |->
                            K \div Cardinality(Listing(B, field, item))],
                         own \cap present)
    IN  /\ Mul(value, FromInt(Cardinality(own) * K)) =
               Mul(energy_constant, FromInt(shares))
        /\ \A x \in present :
              own = {x} =>
                 /\ Cardinality(Listing(B, field, x)) = 1 => value = energy_constant
                 /\ Cardinality(Listing(B, field, x)) = 2 =>
                        Mul(value, FromInt(2)) = energy_constant

\* C12: input_from_data, input_from_goals and taken_by_protected_goals divide
\* fairly: per present item of the behavior's own set, energy x 1/|behaviors
\* listing the item| x 1/|own set|; the full constant for the only lister of
\* a single present item, half of it with a second lister.
C12_FairDivision ==
    /\ called = "input_from_data" =>
          FairDivision(result[1], energy.data, behaviors,
                       LAMBDA r : r.preconditions,
                       state.data \cup state.protected_goals, argument[1])
    /\ called = "input_from_goals" =>
          FairDivision(result[1], energy.goals, behaviors,
                       LAMBDA r : r.additions, state.goals, argument[1])
    /\ called = "taken_by_protected_goals" =>
          FairDivision(result[1], energy.conf, behaviors,
                       LAMBDA r : r.deletions, state.protected_goals, argument[1])

\* input_from_goals returned half of a positive energy.goals to a behavior
\* that shares its single, wanted addition with a second behavior.
C12_Witness ==
    /\ called = "input_from_goals"
    /\ Positive(energy.goals)
    /\ Mul(result[1], FromInt(2)) = energy.goals
    /\ \E x \in state.goals :
          /\ behaviors[argument[1]].additions = {x}
          /\ Cardinality(behaviors_that_add(behaviors, x)) = 2

\* The network holds the single behavior b1 without preconditions, additions
\* and deletions.
OnlyB1(B) ==
    /\ Len(B) = 1
    /\ B[1].preconditions = {} /\ B[1].additions = {} /\ B[1].deletions = {}

\* The first run of the b1 network, with threshold 0, executes b1 once and sets
\* threshold to max_threshold.
C13_FirstRun ==
    (called = "run" /\ OnlyB1(before) /\ threshold_before = Zero) =>
        /\ executed = <<before[1].label>>
        /\ behaviors[1].current_activation = Zero
        /\ threshold = max_threshold

\* The run that follows it with the same state executes nothing and leaves
\* threshold at 0.9 x max_threshold.
C13_SecondRun ==
    (/\ called = "run" /\ OnlyB1(before) /\ threshold_before = Zero
     /\ called' = "run" /\ state' = state) =>
        /\ executed' = <<>>
        /\ Mul(threshold', FromInt(10)) = Mul(max_threshold, FromInt(9))

Stuck ==
    /\ called = "run" /\ raised = ""
    /\ executed = <<>>
    /\ behaviors = before
    /\ Positive(threshold)
    /\ \E i \in DOMAIN behaviors : is_executable(behaviors[i], state)
    /\ \A i \in DOMAIN behaviors :
          is_executable(behaviors[i], state) =>
              /\ behaviors[i].executable
              /\ behaviors[i].current_activation = Zero

\* C14 as claimed: when run(state) is called repeatedly with a state in which
\* some behavior is executable, some behavior is executed after finitely many
\* calls.  In its finite form: the calls never get stuck, that is, into a
\* network that every further run(state) leaves as it is without executing.
C14_EventualAction == ~Stuck

\* C15: Behavior.execute() of a behavior that is not executable fails its
\* assertion, leaves current_activation as it is and invokes no action; of an
\* executable behavior it sets current_activation to 0 and invokes the action
\* exactly once.
C15_ExecuteAsserts ==
    called = "execute" =>
        LET b == argument[1]
        IN  /\ ~before[b].executable =>
                  /\ raised = "AssertionError"
                  /\ behaviors[b].current_activation = before[b].current_activation
                  /\ executed = <<>>
            /\ before[b].executable =>
                  /\ raised = ""
                  /\ behaviors[b].current_activation = Zero
                  /\ executed = <<before[b].label>>
            /\ \A i \in DOMAIN before : i # b => behaviors[i] = before[i]

\* execute() failed its assertion on a behavior with positive activation.
C15_Witness ==
    /\ called = "execute"
    /\ raised = "AssertionError"
    /\ Positive(behaviors[argument[1]].current_activation)

\* The names of the seven energy-flow methods.
EnergyFlow ==
    {"input_from_data", "input_from_goals", "taken_by_protected_goals",
     "spread_backwards", "spread_forward", "take_away", "behavior_spread"}

\* The items the sum of the last call ranges over, for the calls that sum
\* over one intersection.
Qualifying ==
    LET x == behaviors[argument[1]]
        y == behaviors[argument[Len(argument)]]
    IN  CASE called = "input_from_data" ->
                (state.data \cup state.protected_goals) \cap x.preconditions
          [] called = "input_from_goals" -> state.goals \cap x.additions
          [] called = "taken_by_protected_goals" ->
                state.protected_goals \cap x.deletions
          [] called = "spread_backwards" ->
                (x.preconditions \cap y.additions) \ state.data
          [] called = "spread_forward" ->
                (x.additions \cap y.preconditions) \ state.data
          [] called = "take_away" ->
                x.preconditions \cap y.deletions \cap state.data

\* C16 as claimed: for behaviors of the list, every state, every choice of
\* sets and every non-negative setting of the energy constants, none of the
\* seven energy-flow methods raises a division-by-zero fault, and an empty
\* qualifying intersection contributes exactly 0.
C16_NoDivisionByZero ==
    called \in EnergyFlow =>
        /\ raised # "ZeroDivisionError"
        /\ (called # "behavior_spread" /\ Qualifying = {}) => result = <<Zero>>

\* C17: mean_activation() returns the arithmetic mean of current_activation
\* for a non-empty list and faults with a division by zero for an empty one;
\* so relax(), update_behaviors(state) and run(state) on a network without
\* behaviors fault, executing no action and leaving threshold as it was.
C17_MeanOfEmptyList ==
    /\ called = "mean_activation" =>
          IF before = <<>>
          THEN raised = "ZeroDivisionError" /\ result = <<>>
          ELSE /\ raised = ""
               /\ Mul(result[1], FromInt(Len(before))) =
                      SumSet([i \in DOMAIN before |-> before[i].current_activation],
                             DOMAIN before)
    /\ (called \in {"relax", "relax again", "update_behaviors", "run"}
        /\ before = <<>>) =>
          /\ raised = "ZeroDivisionError"
          /\ executed = <<>>
          /\ threshold = threshold_before
          /\ behaviors = <<>>

\* run(state) on a network without behaviors raised the fault.
C17_Witness ==
    /\ called = "run"
    /\ before = <<>>
    /\ state.data # {}
    /\ raised = "ZeroDivisionError"
    /\ threshold = max_threshold

\* A step that is a call of run leaves the energy constants, max_threshold,
\* the length and order of the behavior list and every behavior's label,
\* preconditions, additions and deletions as they were.  (The State argument
\* is a value of the model: run has no assignment to it to translate.)
C18_RunFrame ==
    called' = "run" =>
        /\ energy' = energy
        /\ max_threshold' = max_threshold
        /\ Len(behaviors') = Len(behaviors)
        /\ \A i \in DOMAIN behaviors :
              /\ behaviors'[i].label = behaviors[i].label
              /\ behaviors'[i].preconditions = behaviors[i].preconditions
              /\ behaviors'[i].additions = behaviors[i].additions
              /\ behaviors'[i].deletions = behaviors[i].deletions

C19_RoundTrip ==
    (called = "retrieve" /\ Len(stored) = 1 /\ argument[1] = stored[1][1]) =>
        array_equal(result[1], Array(stored[1][2]))

\* C20 as claimed: after store(words) with one or two patterns over {0, 1} as
\* rows, retrieve(p) returns p unchanged for each stored pattern p, for every
\* order in which the units are updated.
C20_StoredPatternsAreFixedPoints ==
    (called = "retrieve" /\ stored # <<>>
     /\ \E p \in DOMAIN stored[1] : stored[1][p] = argument[1]) =>
        /\ raised = ""
        /\ result = <<argument[1]>>

\* C21: run never trips the assertion of Behavior.execute: a call of run does
\* not end in AssertionError, and the behavior it selected and executed has
\* executable = TRUE as update_behaviors recomputed it from the state of that
\* same call, that is, its preconditions are within state.data and
\* state.protected_goals.
C21_RunNeverTripsAssertion ==
    called = "run" =>
        /\ raised # "AssertionError"
        /\ executed # <<>> =>
              /\ relaxed[executed[1]].executable = TRUE
              /\ is_executable(relaxed[executed[1]], state)
              /\ relaxed[executed[1]].preconditions \subseteq
                     (state.data \cup state.protected_goals)

\* A run executed a behavior with preconditions that an earlier run had left
\* not executable: the flag it relied on is the one of this call.
C21_Witness ==
    /\ called = "run"
    /\ raised = ""
    /\ executed # <<>>
    /\ before[executed[1]].executable = FALSE
    /\ Positive(before[executed[1]].previous_activation)
    /\ relaxed[executed[1]].preconditions # {}

\* The sum of (1/|behaviors_that_delete(item)|) * (1/|deletions of source|)
\* over the items taker needs, source deletes and the state holds.
ConflictShares(B, taker, source, s) ==
    LET items == B[taker].preconditions \cap B[source].deletions \cap s.data
    IN  SumSet([item \in items |->
                   Mul(Rat(1, Cardinality(Listing(B, LAMBDA b : b.deletions, item))),
                       Rat(1, Cardinality(B[source].deletions)))],
               items)

\* The value the claim gives take_away(taker, source, s) outside the case of
\* the weaker conflictor.
ConflictEnergy(B, e, taker, source, s) ==
    IF B[taker].preconditions \cap B[source].deletions \cap s.data = {}
    THEN Zero
    ELSE Mul(Mul(B[taker].previous_activation, Div(e.conf, e.goals)),
             ConflictShares(B, taker, source, s))

\* The weaker conflictor: taker has less previous_activation than source and
\* the state holds an item that source needs and taker deletes.
WeakerConflictor(B, taker, source, s) ==
    /\ Less(B[taker].previous_activation, B[source].previous_activation)
    /\ s.data \cap B[source].preconditions \cap B[taker].deletions # {}

\* C22 as claimed: take_away(taker, source, state) returns 0 for the weaker
\* conflictor; otherwise it returns taker.previous_activation *
\* (energy.conf / energy.goals) * the sum over the items in taker.preconditions,
\* source.deletions and state.data of (1/|behaviors_that_delete(item)|) *
\* (1/|source.deletions|), which is 0 when no item is in all three.
C22_TakeAway ==
    called = "take_away" =>
        /\ raised = ""
        /\ result = <<IF WeakerConflictor(behaviors, argument[1], argument[2], state)
                      THEN Zero
                      ELSE ConflictEnergy(behaviors, energy, argument[1],
                                          argument[2], state)>>

\* What a run that returned has made of the threshold: max_threshold after an
\* execution, and otherwise 0.9 times the threshold it found, as the
\* multiplication gives it, and less than it.
C23_Ratchet ==
    (called' = "run" /\ raised' = "") =>
        IF executed' # <<>>
        THEN threshold' = max_threshold
        ELSE /\ threshold' = decay(threshold)
             /\ Less(threshold', threshold)

\* C23 as claimed: on a network built with max_threshold > 0, after any
\* sequence of run calls threshold is max_threshold * 0.9^k for k the number of
\* consecutive runs since the last one that executed a behavior (threshold is
\* max_threshold at construction and after an execution, and each run without
\* one multiplies it by 0.9); hence 0 < threshold <= max_threshold always, and
\* threshold strictly decreases across consecutive quiescent runs.
C23_ThresholdRatchet ==
    /\ [](Positive(threshold) /\ Leq(threshold, max_threshold))
    /\ [][C23_Ratchet]_vars

\* Every entry of the content matrix lies in [-15, 15], and the constructor
\* has set the activation threshold to address_length - 2 * activation_radius.
C24_InRange ==
    (memory # <<>> /\ "hard_addresses" \in DOMAIN memory) =>
        /\ \A k \in DOMAIN memory.content :
              \A j \in DOMAIN memory.content[k] :
                 memory.content[k][j] \in -15..15
        /\ called = "init" =>
              memory.activation_threshold = argument[2] - 2 * argument[4]

\* The counter c after a store of bit: one up for 1, one down for 0, kept
\* within [-15, 15].
Saturating(c, bit) ==
    LET moved == IF bit = 1 THEN c + 1 ELSE c - 1
    IN  IF moved > 15 THEN 15 ELSE IF moved < -15 THEN -15 ELSE moved

\* A step that is a store moves the counters of the rows of the activated
\* hard locations and no other; a step that is a retrieve moves none.
C24_Counting ==
    /\ called' = "store" =>
          LET address == argument'[1]
              word == argument'[2]
          IN  /\ memory'.hard_addresses = memory.hard_addresses
              /\ memory'.activation_threshold = memory.activation_threshold
              /\ \A k \in DOMAIN memory.content :
                    IF SumInt([i \in DOMAIN address |->
                                  memory.hard_addresses[k][i] * (2 * address[i] - 1)],
                              DOMAIN address) >= memory.activation_threshold
                    THEN \A j \in DOMAIN word :
                            memory'.content[k][j] =
                                Saturating(memory.content[k][j], word[j])
                    ELSE memory'.content[k] = memory.content[k]
    /\ called' = "retrieve" => memory' = memory

\* C24: after any sequence of store(address, word) calls every entry of the
\* content matrix lies in [-15, 15]; a store changes only rows of hard
\* locations activated by the address (inner product with the converted
\* address >= address_length - 2 * activation_radius), each by +1 for a word
\* bit 1 and -1 for a word bit 0, saturating at the bounds; retrieve never
\* modifies content.
C24_CounterBound == []C24_InRange /\ [][C24_Counting]_vars

\* A store of bit 1 that reached one of two hard locations: the counter of
\* that row stands at the upper bound, and the row of the other, at the lower
\* bound from earlier stores, is as it was.
C24_Witness ==
    /\ called = "store"
    /\ argument[2] = <<1>>
    /\ Len(memory.content) = 2
    /\ \E k, other \in DOMAIN memory.content :
          /\ _active_locations(memory, argument[1])[k]
          /\ ~_active_locations(memory, argument[1])[other]
          /\ memory.content[k] = <<15>>
          /\ memory.content[other] = <<-15>>

\* C25 as claimed: retrieve(probe) terminates for every stored content and
\* every probe of matching length, each unit's while loop stopping after at
\* most two recomputations because the diagonal of the stored weight matrix
\* is zero; a probe of another length is rejected by the assertion, before
\* any update.
C25_RetrieveTerminates ==
    (called = "retrieve" /\ memory.content # NoContent) =>
        IF Len(argument[1]) # Len(memory.content)
        THEN raised = "AssertionError" /\ result = <<>>
        ELSE /\ raised = ""
             /\ result # <<>>
             /\ relax_units(memory.content, convert(argument[1]), argument[2],
                            0).recomputations <= 2
             /\ \A i \in DOMAIN memory.content : IsZero(memory.content[i][i])

====
